---- MODULE Spec2Model ----
(***************************************************************************)
(* Model of the conversation engine of frontend/src/components/            *)
(* ChatArea.jsx: the handlers handleSendMessage, handleSubmitEdit,         *)
(* handleEditMessage and handleCancelEdit, their suspension points         *)
(* (await) and the values each invocation captures from the render it was  *)
(* created in (currentSession, selectedModel, apiMode, isLoading,          *)
(* editingMessageId).                                                      *)
(*                                                                         *)
(* Texts are sequences of one-character strings, so that trim() and the    *)
(* concatenation of chunks are computed rather than assumed.               *)
(*                                                                         *)
(* The session context (addMessage, updateSessionModel,                    *)
(* convertTemporarySession), apiService and mockApiService are not part of *)
(* the component's file; they are modelled from the specification.         *)
(* One thread (the current session) is modelled; the file-upload state and *)
(* the scroll effect touch none of the modelled state and are left out.    *)
(* Timestamps of edits are left out.  The model selector of the header is  *)
(* not operated: selectedModel follows the session's model, as the effect  *)
(* on currentSession makes it, and sessions start with either model.       *)
(***************************************************************************)
EXTENDS Integers, Sequences, FiniteSets, TLC

VARIABLES session, isLoading, streamingMessage, selectedModel, apiMode,
          editingMessageId, editingMessageText, db, pc, loc, calls

vars == <<session, isLoading, streamingMessage, selectedModel, apiMode,
          editingMessageId, editingMessageText, db, pc, loc, calls>>

\* ------------------------------------------------------------------ bounds
\* Number of invocations of handleSendMessage and handleSubmitEdit.
MaxExchanges == 2
\* Number of chunks the simulator delivers in one exchange, at most.
MaxChunks == 2

Exchanges == 1..MaxExchanges

\* ------------------------------------------------------------- value sets
NoText == <<>>
NoId == <<"none", 0>>
NoModel == "none"
TempId == <<"tmp", 0>>
ThreadIds == {<<"T", i>> : i \in 0..MaxExchanges}

\* availableModels (the first two entries of the initial list)
Models == {"tinyllama:latest", "qwen3:0.6b"}
DefaultModel == "tinyllama:latest"
OtherModel == "qwen3:0.6b"

\* texts the user may submit: empty, whitespace only, and a real question
Inputs == {<<>>, <<" ">>, <<" ", "b">>}
\* chunks the simulator may emit
Chunks == {<<"x">>, <<"y", "z">>}

\* "I'm sorry, I encountered an error processing your request."
FallbackText == <<"E">>

\* ---------------------------------------------------------- pure helpers
IsSpace(c) == c = " "

RECURSIVE TrimLeft(_)
TrimLeft(s) ==
    IF s = <<>> THEN s
    ELSE IF IsSpace(Head(s)) THEN TrimLeft(Tail(s)) ELSE s

RECURSIVE TrimRight(_)
TrimRight(s) ==
    IF s = <<>> THEN s
    ELSE IF IsSpace(s[Len(s)]) THEN TrimRight(SubSeq(s, 1, Len(s) - 1)) ELSE s

\* String.prototype.trim
Trim(s) == TrimRight(TrimLeft(s))

\* `This is a response to: "${message}". ... (${selectedModel}).`
SimulatedResponse(message, model) == <<"r", ":">> \o message \o <<model>>

\* `This is a response to the edited question: "${updatedMessage}". Generated by ${selectedModel}.`
EditSimulatedResponse(message, model) == <<"e", ":">> \o message \o <<model>>

ReplaceAt(seq, i, v) == [seq EXCEPT ![i] = v]

\* index of the first message with the given id, 0 when there is none
\* (Array.prototype.findIndex, with 0 for -1)
FindIndex(msgs, id) ==
    IF \E i \in 1..Len(msgs) : msgs[i].id = id
    THEN CHOOSE i \in 1..Len(msgs) :
            /\ msgs[i].id = id
            /\ \A j \in 1..(i - 1) : msgs[j].id # id
    ELSE 0

\* --------------------------------------------------------------- messages
\* A message is one record shape for both variants: hasEdits tells whether
\* the `edits` property is present (edit-branching variant); a legacy
\* message has question / answer / model_name directly.
Edit(editId, model, question, answer) ==
    [edit_id |-> editId, model_name |-> model, question |-> question, answer |-> answer]

BranchingMessage(id, edits) ==
    [id |-> id, hasEdits |-> TRUE, edits |-> edits,
     question |-> NoText, answer |-> NoText, model_name |-> NoModel]

LegacyMessage(id, question, answer, model) ==
    [id |-> id, hasEdits |-> FALSE, edits |-> <<>>,
     question |-> question, answer |-> answer, model_name |-> model]

\* the question text the message list shows for a message
ShownQuestion(m) ==
    IF m.hasEdits /\ m.edits # <<>> THEN m.edits[Len(m.edits)].question ELSE m.question

\* --------------------------------------- session context (from the spec)
\* addMessage(text, isUser, modelName): appends one message to the current
\* thread; a user message is a question without an answer yet, an assistant
\* message an answer without a question.
addMessage(sess, id, text, isUser, model) ==
    [sess EXCEPT !.messages =
        Append(@, IF isUser THEN LegacyMessage(id, text, NoText, NoModel)
                  ELSE LegacyMessage(id, NoText, text, model))]

\* updateSessionModel(threadId, modelName, messages): sets the model and
\* replaces the message list of the thread with that id.
updateSessionModel(sess, threadId, model, msgs) ==
    IF sess.id = threadId
    THEN [sess EXCEPT !.modelName = model, !.messages = msgs]
    ELSE sess

\* convertTemporarySession(oldId, newThread): the thread known under oldId
\* takes the backend's thread_id and stops being temporary.
convertTemporarySession(sess, oldId, newId) ==
    IF sess.id = oldId
    THEN [sess EXCEPT !.id = newId, !.isTemporary = FALSE]
    ELSE sess

\* ------------------------------------------------ backend (from the spec)
\* createMessage: the server stores one message with its first edit.
createMessage(d, threadId, e, question, answer, model) ==
    [d EXCEPT ![threadId] =
        Append(@, [message_id |-> <<"bm", e>>,
                   edits |-> <<Edit(<<"be", e>>, model, question, answer)>>])]

\* createMessageEdit: the server appends an edit to the message with that id.
createMessageEdit(d, messageId, e, question, answer, model) ==
    [t \in DOMAIN d |->
        [i \in 1..Len(d[t]) |->
            IF d[t][i].message_id = messageId
            THEN [d[t][i] EXCEPT !.edits =
                    Append(@, Edit(<<"be", e>>, model, question, answer))]
            ELSE d[t][i]]]

KnownMessage(d, messageId) ==
    \E t \in DOMAIN d : \E i \in 1..Len(d[t]) : d[t][i].message_id = messageId

\* getConversation(threadId): the stored conversation, [] for a thread the
\* server does not know.
getConversation(d, threadId) ==
    IF threadId \in DOMAIN d THEN d[threadId] ELSE <<>>

\* transformConversation: server messages to the component's message shape.
transformConversation(conv) ==
    [i \in 1..Len(conv) |-> BranchingMessage(conv[i].message_id, conv[i].edits)]

\* ------------------------------------------------------ component pieces
\* useEffect on [currentSession]: the selected model follows the session
SyncSelectedModel(sess) ==
    IF sess.modelName # NoModel THEN sess.modelName ELSE DefaultModel

\* if (apiMode): the mode toggle, as captured by the handler, selects the
\* backend branch; the else branch talks to the simulator or to nothing
UsesBackendAlways(mode) == TRUE

UsesBackend(mode) == mode

\* mutant: the guard forgets the loading flag
SendGuardIgnoresLoading(message, loading) == Trim(message) # <<>>

\* entry guard of handleSendMessage: proceed unless blank or loading
SendGuard(message, loading) == Trim(message) # <<>> /\ ~loading

\* mutant: a thread is created for every send
NeedsThreadAlways(snap) == TRUE

\* `if (currentSession.isTemporary)`: a thread must be created first
NeedsThread(snap) == snap.isTemporary


\* ---- handleSendMessage, streaming mode: the onChunk callback
\* setStreamingMessage(prev => prev + chunk): the chunk is appended to the
\* partial text as it is when the callback runs; the session is not an
\* argument of any call in the callback
OnChunkWritesMessage(sess, prev, chunk) ==
    [session |-> IF sess.messages = <<>> THEN sess
                 ELSE [sess EXCEPT !.messages[Len(sess.messages)].answer = prev \o chunk],
     streamingMessage |-> prev \o chunk]

OnChunk(sess, prev, chunk) ==
    [session |-> sess, streamingMessage |-> prev \o chunk]

\* onComplete calls updateSessionModel when the captured thread ends with a
\* message it can attach the answer to, and addMessage otherwise
UpdatesSession(snap) ==
    LET n == Len(snap.messages)
    IN  n > 0 /\ (snap.messages[n].hasEdits \/ snap.messages[n].question # NoText)

\* ---- handleSendMessage, streaming mode: the onComplete callback
\* The callback reads currentSession of the render the handler was created
\* in (snap), not the session as it is when the callback runs.
OnComplete(sess, snap, message, model, fullResponse, e) ==
    LET n == Len(snap.messages)
        lastMessage == snap.messages[n]
    IN  IF n > 0 /\ lastMessage.hasEdits
        THEN updateSessionModel(sess, snap.id, model,
                ReplaceAt(snap.messages, n,
                    [lastMessage EXCEPT !.edits =
                        Append(@, Edit(<<"mock_edit", Len(lastMessage.edits) + 1>>,
                                       model, message, fullResponse))]))
        ELSE IF n > 0 /\ lastMessage.question # NoText
        THEN updateSessionModel(sess, snap.id, model,
                ReplaceAt(snap.messages, n,
                    [lastMessage EXCEPT !.answer = fullResponse, !.model_name = model]))
        ELSE addMessage(sess, <<"a", e>>, fullResponse, FALSE, model)

\* mutant: the catch block leaves the loading flag set
SendCatchKeepsLoading(sess, model, e) ==
    [session |-> addMessage(sess, <<"a", e>>, FallbackText, FALSE, model),
     isLoading |-> TRUE,
     streamingMessage |-> NoText]

\* the catch block of the backend branch: fallback answer, flags cleared
SendCatch(sess, model, e) ==
    [session |-> addMessage(sess, <<"a", e>>, FallbackText, FALSE, model),
     isLoading |-> FALSE,
     streamingMessage |-> NoText]

\* mutant: onError adds no fallback answer
OnErrorNoFallback(sess, model, e) ==
    [session |-> sess, isLoading |-> FALSE, streamingMessage |-> NoText]

\* the onError callback of the streaming branch
OnError(sess, model, e) ==
    [session |-> addMessage(sess, <<"a", e>>, FallbackText, FALSE, model),
     isLoading |-> FALSE,
     streamingMessage |-> NoText]

\* mutant: the try block ends without clearing the loading flag
SendCommitKeepsLoading(sess, threadId, model, msgs) ==
    [session |-> updateSessionModel(sess, threadId, model, msgs),
     isLoading |-> TRUE,
     streamingMessage |-> NoText]

\* the end of the try block of the backend branch
SendCommit(sess, threadId, model, msgs) ==
    [session |-> updateSessionModel(sess, threadId, model, msgs),
     isLoading |-> FALSE,
     streamingMessage |-> NoText]

\* ---- handleSubmitEdit
\* entry guard: an edit is open, the text is not blank, the message is found
EditGuardAcceptsBlank(editingId, text, msgs) ==
    /\ editingId # NoId
    /\ FindIndex(msgs, editingId) # 0

EditGuard(editingId, text, msgs) ==
    /\ editingId # NoId
    /\ Trim(text) # <<>>
    /\ FindIndex(msgs, editingId) # 0

\* mutant: the new edit does not carry the latest answer over
MockEditLosesAnswer(msgs, editingId, text, model) ==
    LET i == FindIndex(msgs, editingId)
        newEdit == Edit(<<"mock_edit", Len(msgs[i].edits) + 1>>, model, text, NoText)
    IN  ReplaceAt(msgs, i, [msgs[i] EXCEPT !.edits = Append(@, newEdit)])

\* mock mode, edit-branching message: a new edit that reuses the latest answer
MockEdit(msgs, editingId, text, model) ==
    LET i == FindIndex(msgs, editingId)
        latestEdit == msgs[i].edits[Len(msgs[i].edits)]
        newEdit == Edit(<<"mock_edit", Len(msgs[i].edits) + 1>>, model, text, latestEdit.answer)
    IN  ReplaceAt(msgs, i, [msgs[i] EXCEPT !.edits = Append(@, newEdit)])

\* mock mode, legacy message: the question is overwritten
LegacyEdit(msgs, editingId, text) ==
    LET i == FindIndex(msgs, editingId)
    IN  ReplaceAt(msgs, i, [msgs[i] EXCEPT !.question = text])

\* handleSubmitEdit, backend mode, after getConversation: the fetched
\* conversation replaces the messages of the captured thread id, then the
\* editing state and the in-progress flag are cleared
EditCommitKeepsEditing(sess, threadId, model, msgs, editingId, editingText) ==
    [session |-> updateSessionModel(sess, threadId, model, msgs),
     editingMessageId |-> editingId,
     editingMessageText |-> editingText,
     isLoading |-> FALSE]

EditCommit(sess, threadId, model, msgs, editingId, editingText) ==
    [session |-> updateSessionModel(sess, threadId, model, msgs),
     editingMessageId |-> NoId,
     editingMessageText |-> NoText,
     isLoading |-> FALSE]

\* the catch block of handleSubmitEdit: only the loading flag is cleared
EditCatch(loading) == FALSE

\* ------------------------------------------------------------------ state
NoSession == [id |-> NoId, isTemporary |-> FALSE, modelName |-> NoModel, messages |-> <<>>]

NoLoc ==
    [kind |-> "none", message |-> NoText, snap |-> NoSession, model |-> NoModel,
     apiMode |-> FALSE, editId |-> NoId, threadId |-> NoId, full |-> NoText,
     nchunks |-> 0, outcome |-> "none"]

\* what is kept of a handler invocation once it has returned
Ended(l, outcome) ==
    [NoLoc EXCEPT !.kind = l.kind, !.message = l.message, !.apiMode = l.apiMode,
                  !.editId = l.editId, !.outcome = outcome]

\* the conversation a persisted thread starts with
StoredConversation ==
    <<[message_id |-> <<"bm", 0>>,
       edits |-> <<Edit(<<"be", 0>>, DefaultModel, <<"a">>, <<"r">>)>>]>>

InitSessions ==
    { \* a new chat: temporary, empty
      [id |-> TempId, isTemporary |-> TRUE, modelName |-> NoModel, messages |-> <<>>],
      \* a local chat holding one legacy question / answer message
      [id |-> TempId, isTemporary |-> TRUE, modelName |-> DefaultModel,
       messages |-> <<LegacyMessage(<<"u", 0>>, <<"a">>, <<"r">>, DefaultModel)>>],
      \* a persisted thread as fetched from the backend
      [id |-> <<"T", 0>>, isTemporary |-> FALSE, modelName |-> OtherModel,
       messages |-> transformConversation(StoredConversation)] }

Init ==
    /\ session \in InitSessions
    /\ isLoading = FALSE
    /\ streamingMessage = NoText
    /\ selectedModel = SyncSelectedModel(session)
    /\ apiMode = TRUE
    /\ editingMessageId = NoId
    /\ editingMessageText = NoText
    /\ db = [t \in ThreadIds |->
                IF t = session.id /\ ~session.isTemporary THEN StoredConversation ELSE <<>>]
    /\ pc = [e \in Exchanges |-> "notstarted"]
    /\ loc = [e \in Exchanges |-> NoLoc]
    /\ calls = [e \in Exchanges |-> <<>>]

\* invocations are numbered in the order they happen
IsNext(e) == pc[e] = "notstarted" /\ \A f \in Exchanges : f < e => pc[f] # "notstarted"

Call(op, id, text) == [op |-> op, id |-> id, text |-> text]

\* the message input is wired to handleSendMessage unless an edit is open,
\* and to handleSubmitEdit while one is
SendInputShown == editingMessageId = NoId

\* ---------------------------------------------------------------- actions
\* header control: the API mode switch
SetApiMode ==
    /\ apiMode' = ~apiMode
    /\ UNCHANGED <<session, isLoading, streamingMessage, selectedModel,
                   editingMessageId, editingMessageText, db, pc, loc, calls>>

\* handleSendMessage returning at its guard
SendRejected(e, message) ==
    /\ IsNext(e)
    /\ SendInputShown
    /\ ~SendGuard(message, isLoading)
    /\ pc' = [pc EXCEPT ![e] = "done"]
    /\ loc' = [loc EXCEPT ![e] =
                [NoLoc EXCEPT !.kind = "send", !.message = message, !.apiMode = apiMode,
                              !.outcome = "rejected"]]
    /\ UNCHANGED <<session, isLoading, streamingMessage, selectedModel, apiMode,
                   editingMessageId, editingMessageText, db, calls>>

\* handleSendMessage up to `await addMessage(message, true, null)`
SendStart(e, message) ==
    /\ IsNext(e)
    /\ SendInputShown
    /\ SendGuard(message, isLoading)
    /\ session' = addMessage(session, <<"u", e>>, message, TRUE, NoModel)
    /\ selectedModel' = SyncSelectedModel(session')
    /\ pc' = [pc EXCEPT ![e] = "awaitAdd"]
    /\ loc' = [loc EXCEPT ![e] =
                [NoLoc EXCEPT !.kind = "send", !.message = message, !.snap = session,
                              !.model = selectedModel, !.apiMode = apiMode]]
    /\ UNCHANGED <<isLoading, streamingMessage, apiMode,
                   editingMessageId, editingMessageText, db, calls>>

\* after the await: loading state set, then the first call of the chosen mode
SendDispatch(e) ==
    /\ pc[e] = "awaitAdd"
    /\ isLoading' = TRUE
    /\ streamingMessage' = NoText
    /\ IF UsesBackend(loc[e].apiMode)
       THEN IF NeedsThread(loc[e].snap)
            THEN /\ pc' = [pc EXCEPT ![e] = "awaitCreateThread"]
                 /\ calls' = [calls EXCEPT ![e] = Append(@, Call("createThread", NoId, NoText))]
                 /\ loc' = [loc EXCEPT ![e].threadId = loc[e].snap.id]
            ELSE /\ pc' = [pc EXCEPT ![e] = "awaitCreateMessage"]
                 /\ calls' = [calls EXCEPT ![e] =
                        Append(@, Call("createMessage", loc[e].snap.id, loc[e].message))]
                 /\ loc' = [loc EXCEPT ![e].threadId = loc[e].snap.id]
       ELSE /\ pc' = [pc EXCEPT ![e] = "streaming"]
            /\ UNCHANGED <<calls, loc>>
    /\ UNCHANGED <<session, selectedModel, apiMode, editingMessageId,
                   editingMessageText, db>>

\* createThread resolves: the thread takes the backend id, createMessage is called
CreateThreadResolve(e) ==
    /\ pc[e] = "awaitCreateThread"
    /\ LET newId == <<"T", e>>
       IN  /\ session' = convertTemporarySession(session, loc[e].snap.id, newId)
           /\ loc' = [loc EXCEPT ![e].threadId = newId]
           /\ calls' = [calls EXCEPT ![e] =
                            Append(@, Call("createMessage", newId, loc[e].message))]
    /\ selectedModel' = IF session' # session THEN SyncSelectedModel(session') ELSE selectedModel
    /\ pc' = [pc EXCEPT ![e] = "awaitCreateMessage"]
    /\ UNCHANGED <<isLoading, streamingMessage, apiMode, editingMessageId,
                   editingMessageText, db>>

\* createMessage resolves: the server stored the pair, getConversation is called
CreateMessageResolve(e) ==
    /\ pc[e] = "awaitCreateMessage"
    /\ db' = createMessage(db, loc[e].threadId, e, loc[e].message,
                           SimulatedResponse(loc[e].message, loc[e].model), loc[e].model)
    /\ calls' = [calls EXCEPT ![e] = Append(@, Call("getConversation", loc[e].threadId, NoText))]
    /\ pc' = [pc EXCEPT ![e] = "awaitGetConversation"]
    /\ UNCHANGED <<session, isLoading, streamingMessage, selectedModel, apiMode,
                   editingMessageId, editingMessageText, loc>>

\* getConversation resolves: the fetched conversation replaces the messages
GetConversationResolve(e) ==
    /\ pc[e] = "awaitGetConversation"
    /\ LET r == SendCommit(session, loc[e].threadId, loc[e].model,
                           transformConversation(getConversation(db, loc[e].threadId)))
       IN  /\ session' = r.session
           /\ isLoading' = r.isLoading
           /\ streamingMessage' = r.streamingMessage
    /\ selectedModel' = IF session' # session THEN SyncSelectedModel(session') ELSE selectedModel
    /\ calls' = [calls EXCEPT ![e] =
                    Append(@, Call("updateSessionModel", loc[e].threadId, NoText))]
    /\ pc' = [pc EXCEPT ![e] = "done"]
    /\ loc' = [loc EXCEPT ![e] = Ended(loc[e], "ok")]
    /\ UNCHANGED <<apiMode, editingMessageId, editingMessageText, db>>

\* any of the three backend calls of a send rejects: the catch block
SendBackendReject(e) ==
    /\ pc[e] \in {"awaitCreateThread", "awaitCreateMessage", "awaitGetConversation"}
    /\ LET r == SendCatch(session, loc[e].model, e)
       IN  /\ session' = r.session
           /\ isLoading' = r.isLoading
           /\ streamingMessage' = r.streamingMessage
    /\ selectedModel' = IF session' # session THEN SyncSelectedModel(session') ELSE selectedModel
    /\ pc' = [pc EXCEPT ![e] = "done"]
    /\ loc' = [loc EXCEPT ![e] = Ended(loc[e], "failed")]
    /\ UNCHANGED <<apiMode, editingMessageId, editingMessageText, db, calls>>

\* the simulator delivers a chunk
StreamChunk(e, c) ==
    /\ pc[e] = "streaming"
    /\ loc[e].nchunks < MaxChunks
    /\ LET r == OnChunk(session, streamingMessage, c)
       IN  /\ session' = r.session
           /\ streamingMessage' = r.streamingMessage
    /\ selectedModel' = IF session' # session THEN SyncSelectedModel(session') ELSE selectedModel
    /\ loc' = [loc EXCEPT ![e].nchunks = @ + 1, ![e].full = @ \o c]
    /\ UNCHANGED <<isLoading, apiMode, editingMessageId, editingMessageText, db, pc, calls>>

\* the simulator completes with the full response
StreamComplete(e) ==
    /\ pc[e] = "streaming"
    /\ session' = OnComplete(session, loc[e].snap, loc[e].message, loc[e].model,
                             loc[e].full, e)
    /\ isLoading' = FALSE
    /\ streamingMessage' = NoText
    /\ selectedModel' = IF session' # session THEN SyncSelectedModel(session') ELSE selectedModel
    /\ calls' = IF UpdatesSession(loc[e].snap)
                THEN [calls EXCEPT ![e] =
                        Append(@, Call("updateSessionModel", loc[e].snap.id, NoText))]
                ELSE calls
    /\ pc' = [pc EXCEPT ![e] = "done"]
    /\ loc' = [loc EXCEPT ![e] = Ended(loc[e], "ok")]
    /\ UNCHANGED <<apiMode, editingMessageId, editingMessageText, db>>

\* the simulator fails
StreamError(e) ==
    /\ pc[e] = "streaming"
    /\ LET r == OnError(session, loc[e].model, e)
       IN  /\ session' = r.session
           /\ isLoading' = r.isLoading
           /\ streamingMessage' = r.streamingMessage
    /\ selectedModel' = IF session' # session THEN SyncSelectedModel(session') ELSE selectedModel
    /\ pc' = [pc EXCEPT ![e] = "done"]
    /\ loc' = [loc EXCEPT ![e] = Ended(loc[e], "failed")]
    /\ UNCHANGED <<apiMode, editingMessageId, editingMessageText, db, calls>>

\* ---- editing
\* handleEditMessage(messageId, questionText), invoked from the message list
EditMessage(i) ==
    /\ i \in 1..Len(session.messages)
    /\ editingMessageId # session.messages[i].id
    /\ editingMessageId' = session.messages[i].id
    /\ editingMessageText' = ShownQuestion(session.messages[i])
    /\ UNCHANGED <<session, isLoading, streamingMessage, selectedModel, apiMode,
                   db, pc, loc, calls>>

\* handleCancelEdit
CancelEdit ==
    /\ editingMessageId # NoId
    /\ editingMessageId' = NoId
    /\ editingMessageText' = NoText
    /\ UNCHANGED <<session, isLoading, streamingMessage, selectedModel, apiMode,
                   db, pc, loc, calls>>

\* handleSubmitEdit returning at one of its guards
SubmitEditRejected(e, text) ==
    /\ IsNext(e)
    /\ ~SendInputShown
    /\ ~EditGuard(editingMessageId, text, session.messages)
    /\ pc' = [pc EXCEPT ![e] = "done"]
    /\ loc' = [loc EXCEPT ![e] =
                [NoLoc EXCEPT !.kind = "edit", !.message = text, !.apiMode = apiMode,
                              !.editId = editingMessageId, !.outcome = "rejected"]]
    /\ UNCHANGED <<session, isLoading, streamingMessage, selectedModel, apiMode,
                   editingMessageId, editingMessageText, db, calls>>

\* handleSubmitEdit, backend mode, edit-branching message: up to the first await
SubmitEditBackend(e, text) ==
    /\ IsNext(e)
    /\ ~SendInputShown
    /\ EditGuard(editingMessageId, text, session.messages)
    /\ UsesBackend(apiMode)
    /\ session.messages[FindIndex(session.messages, editingMessageId)].hasEdits
    /\ isLoading' = TRUE
    /\ calls' = [calls EXCEPT ![e] =
                    Append(@, Call("createMessageEdit", editingMessageId, text))]
    /\ pc' = [pc EXCEPT ![e] = "awaitCreateEdit"]
    /\ loc' = [loc EXCEPT ![e] =
                [NoLoc EXCEPT !.kind = "edit", !.message = text, !.snap = session,
                              !.model = selectedModel, !.apiMode = apiMode,
                              !.editId = editingMessageId, !.threadId = session.id]]
    /\ UNCHANGED <<session, streamingMessage, selectedModel, apiMode,
                   editingMessageId, editingMessageText, db>>

\* handleSubmitEdit, backend mode, legacy message: no branch is taken; the
\* editing state and the loading flag are cleared
SubmitEditBackendLegacy(e, text) ==
    /\ IsNext(e)
    /\ ~SendInputShown
    /\ EditGuard(editingMessageId, text, session.messages)
    /\ UsesBackend(apiMode)
    /\ ~session.messages[FindIndex(session.messages, editingMessageId)].hasEdits
    /\ isLoading' = FALSE
    /\ editingMessageId' = NoId
    /\ editingMessageText' = NoText
    /\ pc' = [pc EXCEPT ![e] = "done"]
    /\ loc' = [loc EXCEPT ![e] =
                [NoLoc EXCEPT !.kind = "edit", !.message = text, !.apiMode = apiMode,
                              !.editId = editingMessageId, !.outcome = "ok"]]
    /\ UNCHANGED <<session, streamingMessage, selectedModel, apiMode, db, calls>>

\* handleSubmitEdit, mock mode: the whole handler runs without suspending
SubmitEditMock(e, text) ==
    /\ IsNext(e)
    /\ ~SendInputShown
    /\ EditGuard(editingMessageId, text, session.messages)
    /\ ~UsesBackend(apiMode)
    /\ LET m == session.messages[FindIndex(session.messages, editingMessageId)]
       IN  IF m.hasEdits /\ m.edits = <<>>
           THEN \* latestEdit is undefined: the TypeError lands in the catch block
                /\ isLoading' = EditCatch(isLoading)
                /\ loc' = [loc EXCEPT ![e] =
                            [NoLoc EXCEPT !.kind = "edit", !.message = text, !.apiMode = apiMode,
                                          !.editId = editingMessageId, !.outcome = "failed"]]
                /\ UNCHANGED <<session, selectedModel, editingMessageId, editingMessageText,
                               calls>>
           ELSE /\ session' = updateSessionModel(session, session.id, selectedModel,
                                IF m.hasEdits
                                THEN MockEdit(session.messages, editingMessageId, text,
                                              selectedModel)
                                ELSE LegacyEdit(session.messages, editingMessageId, text))
                /\ selectedModel' = SyncSelectedModel(session')
                /\ editingMessageId' = NoId
                /\ editingMessageText' = NoText
                /\ isLoading' = FALSE
                /\ loc' = [loc EXCEPT ![e] =
                            [NoLoc EXCEPT !.kind = "edit", !.message = text, !.apiMode = apiMode,
                                          !.editId = editingMessageId, !.outcome = "ok"]]
                /\ calls' = [calls EXCEPT ![e] =
                                Append(@, Call("updateSessionModel", session.id, NoText))]
    /\ pc' = [pc EXCEPT ![e] = "done"]
    /\ UNCHANGED <<streamingMessage, apiMode, db>>

\* createMessageEdit resolves: the server stored the edit, getConversation is called
CreateEditResolve(e) ==
    /\ pc[e] = "awaitCreateEdit"
    /\ KnownMessage(db, loc[e].editId)
    /\ db' = createMessageEdit(db, loc[e].editId, e, loc[e].message,
                               EditSimulatedResponse(loc[e].message, loc[e].model),
                               loc[e].model)
    /\ calls' = [calls EXCEPT ![e] =
                    Append(@, Call("getConversation", loc[e].snap.id, NoText))]
    /\ pc' = [pc EXCEPT ![e] = "awaitGetConvEdit"]
    /\ UNCHANGED <<session, isLoading, streamingMessage, selectedModel, apiMode,
                   editingMessageId, editingMessageText, loc>>

\* getConversation resolves: messages replaced, editing state cleared
GetConvEditResolve(e) ==
    /\ pc[e] = "awaitGetConvEdit"
    /\ LET r == EditCommit(session, loc[e].snap.id, loc[e].model,
                           transformConversation(getConversation(db, loc[e].snap.id)),
                           editingMessageId, editingMessageText)
       IN  /\ session' = r.session
           /\ editingMessageId' = r.editingMessageId
           /\ editingMessageText' = r.editingMessageText
           /\ isLoading' = r.isLoading
    /\ selectedModel' = IF session' # session THEN SyncSelectedModel(session') ELSE selectedModel
    /\ calls' = [calls EXCEPT ![e] =
                    Append(@, Call("updateSessionModel", loc[e].snap.id, NoText))]
    /\ pc' = [pc EXCEPT ![e] = "done"]
    /\ loc' = [loc EXCEPT ![e] = Ended(loc[e], "ok")]
    /\ UNCHANGED <<streamingMessage, apiMode, db>>

\* a backend call of an edit rejects: the catch block of handleSubmitEdit
EditBackendReject(e) ==
    /\ pc[e] \in {"awaitCreateEdit", "awaitGetConvEdit"}
    /\ isLoading' = EditCatch(isLoading)
    /\ pc' = [pc EXCEPT ![e] = "done"]
    /\ loc' = [loc EXCEPT ![e] = Ended(loc[e], "failed")]
    /\ UNCHANGED <<session, streamingMessage, selectedModel, apiMode,
                   editingMessageId, editingMessageText, db, calls>>

\* ---------------------------------------------------------- specification
\* the steps with which a started exchange continues and ends
Continue(e) ==
    \/ SendDispatch(e)
    \/ CreateThreadResolve(e)
    \/ CreateMessageResolve(e)
    \/ GetConversationResolve(e)
    \/ SendBackendReject(e)
    \/ StreamComplete(e)
    \/ StreamError(e)
    \/ CreateEditResolve(e)
    \/ GetConvEditResolve(e)
    \/ EditBackendReject(e)

Next ==
    \/ SetApiMode
    \/ \E e \in Exchanges, t \in Inputs : SendRejected(e, t)
    \/ \E e \in Exchanges, t \in Inputs : SendStart(e, t)
    \/ \E i \in 1..(2 * MaxExchanges + 1) : EditMessage(i)
    \/ CancelEdit
    \/ \E e \in Exchanges, t \in Inputs : SubmitEditRejected(e, t)
    \/ \E e \in Exchanges, t \in Inputs : SubmitEditBackend(e, t)
    \/ \E e \in Exchanges, t \in Inputs : SubmitEditBackendLegacy(e, t)
    \/ \E e \in Exchanges, t \in Inputs : SubmitEditMock(e, t)
    \/ \E e \in Exchanges, c \in Chunks : StreamChunk(e, c)
    \/ \E e \in Exchanges : Continue(e)

Spec == Init /\ [][Next]_vars

\* every awaited call settles and the simulator ends every stream
FairSpec == Spec /\ \A e \in Exchanges : WF_vars(Continue(e))

\* ------------------------------------------------------------------ claims
\* an invocation that got past its guard and has not returned to Idle
InFlight(e) == pc[e] \notin {"notstarted", "done"}

\* the exchange has executed setIsLoading(true) and has not finished
SetLoading(e) == InFlight(e) /\ pc[e] # "awaitAdd"

\* C1: never stuck loading. Every exchange that has set the in-progress flag,
\* a send or an edit, in backend or streaming mode, ends, and the step that
\* ends it leaves isLoading false: from any state in which exchange e has
\* set the flag, a state is reached where e has returned and isLoading is
\* false, given that every awaited call settles and every stream ends.
C1_NeverStuckLoading ==
    \A e \in Exchanges : SetLoading(e) ~> (pc[e] = "done" /\ ~isLoading)

\* C1 witness: a send that had set the flag failed, and the flag is clear
C1_Witness ==
    \E e \in Exchanges :
        /\ pc[e] = "done"
        /\ loc[e].kind = "send"
        /\ loc[e].outcome = "failed"
        /\ ~isLoading

\* helpers of the claims
IsPrefix(a, b) == Len(a) <= Len(b) /\ SubSeq(b, 1, Len(a)) = a

Calls(e, op) == {i \in 1..Len(calls[e]) : calls[e][i].op = op}

CreateThreadCount == Cardinality({e \in Exchanges : Calls(e, "createThread") # {}})

\* the step is the invocation of a handler: e leaves "notstarted"
Invoked(e, kind) == pc[e] = "notstarted" /\ pc'[e] # "notstarted" /\ loc'[e].kind = kind

\* the step belongs to the started exchange e
StepOf(e) == pc[e] # "notstarted" /\ (pc'[e] # pc[e] \/ loc'[e] # loc[e])

\* the step ends exchange e with the given outcome
Ends(e, kind, outcome) ==
    /\ InFlight(e)
    /\ pc'[e] = "done"
    /\ loc[e].kind = kind
    /\ loc'[e].outcome = outcome

\* C2: promotion happens at most once per thread. createThread is invoked at
\* most once for the thread, whatever the interleaving of sends; and a send
\* invoked on a thread that is already persisted never calls createThread
\* and leaves the thread's id and temporary flag as they are.
C2_PromotionAtMostOnce ==
    /\ [](CreateThreadCount <= 1)
    /\ [][\A e \in Exchanges :
            (StepOf(e) /\ loc[e].kind = "send" /\ ~loc[e].snap.isTemporary
                /\ loc[e].snap.id # NoId)
            => /\ Calls(e, "createThread") = {}
               /\ session'.id = session.id
               /\ session'.isTemporary = session.isTemporary]_vars

\* C3: thread identity. The temporary flag never goes back to true, and once
\* it is false the thread's id never changes, whatever step follows.
C3_ThreadIdentity ==
    [][~session.isTemporary =>
            (~session'.isTemporary /\ session'.id = session.id)]_vars

\* C3 witness: the thread was promoted by the first send and a second
\* backend send has completed on it since
C3_Witness ==
    /\ ~session.isTemporary
    /\ session.id = <<"T", 1>>
    /\ pc[2] = "done"
    /\ loc[2].kind = "send"
    /\ loc[2].apiMode
    /\ loc[2].outcome = "ok"

\* C4: at most one exchange is in flight per thread: no state has two
\* invocations that are both past their entry guard and not yet back at Idle.
C4_AtMostOneInFlight == Cardinality({e \in Exchanges : InFlight(e)}) <= 1

C6_SendFailureRecovery ==
    [][\A e \in Exchanges :
        Ends(e, "send", "failed")
        => /\ session' = [session EXCEPT !.messages =
                Append(@, LegacyMessage(<<"a", e>>, NoText, FallbackText, loc[e].model))]
           /\ ~isLoading'
           /\ streamingMessage' = NoText]_vars

\* C6 witness: a streaming send failed and the thread ends with the fallback
C6_Witness ==
    \E e \in Exchanges :
        /\ pc[e] = "done"
        /\ loc[e].kind = "send"
        /\ ~loc[e].apiMode
        /\ loc[e].outcome = "failed"
        /\ session.messages # <<>>
        /\ session.messages[Len(session.messages)].answer = FallbackText
        /\ streamingMessage = NoText

\* C7: a successful backend-mode send on a temporary thread. createThread is
\* called exactly once, createMessage once with the backend-assigned id and
\* the question, getConversation with that id; afterwards the thread is not
\* temporary and its messages are the transformed fetched conversation.
C7_BackendSendOnTemporary ==
    [][\A e \in Exchanges :
        (Ends(e, "send", "ok") /\ loc[e].apiMode /\ loc[e].snap.isTemporary)
        => /\ CreateThreadCount = 1
           /\ calls[e] = <<Call("createThread", NoId, NoText),
                           Call("createMessage", loc[e].threadId, loc[e].message),
                           Call("getConversation", loc[e].threadId, NoText)>>
           /\ loc[e].threadId \in ThreadIds
           /\ ~session'.isTemporary
           /\ session'.id = loc[e].threadId
           /\ session'.messages =
                transformConversation(getConversation(db, loc[e].threadId))]_vars

\* the coordinator state of exchange e between steps; Dispatching,
\* Committing and Failed are passed through inside one step each
CoordState(e) ==
    IF pc[e] \in {"notstarted", "awaitAdd", "done"} THEN "Idle"
    ELSE IF pc[e] = "streaming" THEN "Streaming"
    ELSE "AwaitingBackend"

\* C8: exchange state sequence. An exchange leaves Idle only by the
\* dispatching step (which sets isLoading) into AwaitingBackend or Streaming,
\* stays in that state until it ends, and ends only by the committing step
\* (outcome ok) or the failing step (outcome failed), both of which land in
\* Idle with isLoading false; chunks are applied only while Streaming, so
\* never after the commit.
C8_ExchangeStateSequence ==
    [][\A e \in Exchanges :
        LET before == CoordState(e)
            after == CoordState(e)'
        IN  /\ (before = "Idle" /\ after # "Idle")
                => (pc[e] \in {"notstarted", "awaitAdd"} /\ isLoading')
            /\ (before # "Idle" /\ after # "Idle") => after = before
            /\ (before # "Idle" /\ after = "Idle")
                => (pc'[e] = "done" /\ loc'[e].outcome \in {"ok", "failed"} /\ ~isLoading')
            /\ (pc[e] = "done") => (pc'[e] = "done" /\ loc'[e] = loc[e])
            /\ (loc'[e].nchunks # loc[e].nchunks /\ pc'[e] # "done")
                => (before = "Streaming" /\ after = "Streaming")]_vars

\* C8 witness: a streaming send received a chunk and then completed, and a
\* backend send completed
C8_Witness ==
    /\ \E e \in Exchanges :
        loc[e].kind = "send" /\ ~loc[e].apiMode /\ loc[e].outcome = "ok"
            /\ \E i \in 1..Len(session.messages) :
                    session.messages[i].answer \in Chunks
    /\ \E e \in Exchanges : loc[e].kind = "send" /\ loc[e].apiMode /\ loc[e].outcome = "ok"
    /\ ~isLoading

\* every message of `old` is still in `new`, with its edits extended at most
Preserved(old, new) ==
    \A i \in 1..Len(old) :
        \E j \in 1..Len(new) :
            /\ new[j].id = old[i].id
            /\ old[i].hasEdits => (new[j].hasEdits /\ IsPrefix(old[i].edits, new[j].edits))

\* C9: history is append-only under local operation. No step of a
\* streaming-mode send or of a simulated-mode edit removes a message of the
\* thread or removes or reorders an edit of an edit-branching message.
C9_AppendOnlyLocally ==
    [][\A e \in Exchanges :
        ((StepOf(e) \/ Invoked(e, "send") \/ Invoked(e, "edit")) /\ ~loc'[e].apiMode)
        => Preserved(session.messages, session'.messages)]_vars

\* C10: a simulated-mode edit of an edit-branching message grows its edits
\* by exactly one; the earlier edits stay as they are; the new last edit has
\* the submitted question and the answer of the previously latest edit; the
\* other messages and the number of messages are unchanged.
C10_MockEditBranches ==
    [][\A e \in Exchanges :
        LET i == FindIndex(session.messages, editingMessageId)
        IN  (Invoked(e, "edit") /\ ~apiMode /\ loc'[e].outcome = "ok"
                /\ session.messages[i].hasEdits)
            => LET old == session.messages[i].edits
                   new == session'.messages[i].edits
               IN  /\ Len(session'.messages) = Len(session.messages)
                   /\ \A j \in 1..Len(session.messages) :
                        j # i => session'.messages[j] = session.messages[j]
                   /\ session'.messages[i].id = session.messages[i].id
                   /\ Len(new) = Len(old) + 1
                   /\ SubSeq(new, 1, Len(old)) = old
                   /\ new[Len(new)].question = loc'[e].message
                   /\ new[Len(new)].answer = old[Len(old)].answer]_vars

\* C10 witness: a simulated-mode edit has added a second edit to the stored
\* message, with the submitted question and the first edit's answer
C10_Witness ==
    \E e \in Exchanges :
        /\ loc[e].kind = "edit"
        /\ ~loc[e].apiMode
        /\ loc[e].outcome = "ok"
        /\ \E i \in 1..Len(session.messages) :
            /\ session.messages[i].id = loc[e].editId
            /\ session.messages[i].hasEdits
            /\ Len(session.messages[i].edits) = 2
            /\ session.messages[i].edits[2].question = loc[e].message
            /\ session.messages[i].edits[2].question # session.messages[i].edits[1].question
            /\ session.messages[i].edits[2].answer = session.messages[i].edits[1].answer

\* ------------------------------------------------------------------- C11
\* a streaming send is an exchange dispatched to the simulator
StreamingSend(e) == loc[e].kind = "send" /\ ~loc[e].apiMode

\* C11: while a streaming exchange is receiving chunks, the partial text
\* shown is the concatenation, in emission order, of exactly the chunks the
\* exchange has delivered so far, starting from an empty buffer: no chunk is
\* dropped, duplicated or reordered, and no text of another exchange is in it
C11_ChunkOrderPreserved ==
    \A e \in Exchanges :
        pc[e] = "streaming" => streamingMessage = loc[e].full

\* ------------------------------------------------------------------- C12
\* C12: the partial text is display-only.  A chunk delivery changes neither
\* the message list, the id, the temporary flag nor the model of the thread;
\* after the initial append of its invocation, a streaming exchange writes
\* the thread only in the step that ends it (completion or error)
C12_PartialTextDisplayOnly ==
    [][\A e \in Exchanges :
        (StreamingSend(e) /\ StepOf(e) /\ pc'[e] # "done")
        => UNCHANGED <<session, selectedModel>>]_vars

\* a streaming exchange has received all its chunks and the question it
\* appended is in the thread
C12_Witness ==
    \E e \in Exchanges :
        /\ pc[e] = "streaming"
        /\ loc[e].nchunks = MaxChunks
        /\ FindIndex(session.messages, <<"u", e>>) # 0

\* ------------------------------------------------------------------- C13
\* C13: a submitEdit whose text is blank, or whose message is no longer in
\* the thread, is rejected without effect: the message list, the in-progress
\* flag and the editing state are unchanged and no backend call is made
C13_RejectedEditNoEffect ==
    [][\A e \in Exchanges :
        (/\ Invoked(e, "edit")
         /\ \/ Trim(loc'[e].message) = NoText
            \/ FindIndex(session.messages, editingMessageId) = 0)
        => /\ pc'[e] = "done"
           /\ loc'[e].outcome = "rejected"
           /\ calls'[e] = <<>>
           /\ UNCHANGED <<session, isLoading, streamingMessage, editingMessageId,
                          editingMessageText, db, calls>>]_vars

\* a submitEdit was rejected while the edit is still open
C13_Witness ==
    \E e \in Exchanges :
        /\ pc[e] = "done"
        /\ loc[e].kind = "edit"
        /\ loc[e].outcome = "rejected"
        /\ editingMessageId = loc[e].editId

\* ------------------------------------------------------------------- C14
\* C14: when a backend call of a backend-mode submitEdit fails, the failure
\* is recovered locally: one fallback assistant message with the fixed text
\* is appended to the thread, the in-progress flag is cleared and the
\* partial text is empty
C14_EditFailureRecovery ==
    [][\A e \in Exchanges :
        (Ends(e, "edit", "failed") /\ loc[e].apiMode)
        => /\ session'.messages = Append(session.messages,
                LegacyMessage(<<"a", e>>, NoText, FallbackText, loc[e].model))
           /\ ~isLoading'
           /\ streamingMessage' = NoText]_vars

\* ------------------------------------------------------------------- C15
\* the step is a submitEdit with non-blank text on a found legacy message
LegacyEditInvoked(e) ==
    /\ Invoked(e, "edit")
    /\ Trim(loc'[e].message) # NoText
    /\ FindIndex(session.messages, editingMessageId) # 0
    /\ ~session.messages[FindIndex(session.messages, editingMessageId)].hasEdits

\* C15: a submitEdit with non-blank text on a found legacy message updates
\* the message in place, in backend mode as in simulated mode: its question
\* becomes the submitted text, its id and answer are unchanged, it gets no
\* edits list, and the number and order of the messages are unchanged
C15_LegacyEditDirectUpdate ==
    [][\A e \in Exchanges :
        LegacyEditInvoked(e)
        => LET i == FindIndex(session.messages, editingMessageId)
           IN  /\ Len(session'.messages) = Len(session.messages)
               /\ \A j \in 1..Len(session.messages) :
                    j # i => session'.messages[j] = session.messages[j]
               /\ session'.messages[i].question = loc'[e].message
               /\ session'.messages[i].id = session.messages[i].id
               /\ session'.messages[i].answer = session.messages[i].answer
               /\ ~session'.messages[i].hasEdits
               /\ session'.messages[i].edits = <<>>]_vars

\* ------------------------------------------------------------------- C16
\* C16: a backend-mode submitEdit on an edit-branching message that succeeds
\* has called createMessageEdit exactly once, keyed by the id of the edited
\* message and carrying the submitted question, then getConversation for the
\* thread; in the step that ends it the message list becomes the
\* transformConversation output of that fetch (which holds the new edit),
\* the editing state is cleared and the in-progress flag is cleared
C16_BackendEditBranches ==
    [][\A e \in Exchanges :
        (Ends(e, "edit", "ok") /\ loc[e].apiMode)
        => /\ calls[e] = <<Call("createMessageEdit", loc[e].editId, loc[e].message),
                           Call("getConversation", session.id, NoText)>>
           /\ session'.messages = transformConversation(getConversation(db, session.id))
           /\ \E i \in 1..Len(session'.messages) :
                /\ session'.messages[i].id = loc[e].editId
                /\ \E k \in 1..Len(session'.messages[i].edits) :
                     /\ session'.messages[i].edits[k].edit_id = <<"be", e>>
                     /\ session'.messages[i].edits[k].question = loc[e].message
           /\ session'.id = session.id
           /\ editingMessageId' = NoId
           /\ editingMessageText' = NoText
           /\ ~isLoading']_vars

\* a backend-mode edit has succeeded and the thread shows the new edit
C16_Witness ==
    \E e \in Exchanges :
        /\ pc[e] = "done"
        /\ loc[e].kind = "edit"
        /\ loc[e].apiMode
        /\ loc[e].outcome = "ok"
        /\ Calls(e, "createMessageEdit") # {}
        /\ \E i \in 1..Len(session.messages) :
             \E k \in 1..Len(session.messages[i].edits) :
                session.messages[i].edits[k].edit_id = <<"be", e>>

\* ------------------------------------------------------------------- C17
\* operations that take a thread id
ThreadIdOps == {"createMessage", "getConversation", "updateSessionModel"}

\* the call the step adds to the log of exchange e
NewCall(e) == calls'[e][Len(calls'[e])]

\* C17: once the thread is promoted, every later backend call and session
\* update of any exchange, also of one started before the promotion, uses a
\* backend-assigned id and never the retired temporary id; and no backend
\* call that takes a thread id is ever made with a temporary id
C17_RetiredIdNeverUsed ==
    /\ [][\A e \in Exchanges :
            (/\ Len(calls'[e]) > Len(calls[e])
             /\ NewCall(e).op \in ThreadIdOps
             /\ ~session.isTemporary)
            => NewCall(e).id # TempId]_vars
    /\ [](\A e \in Exchanges : \A i \in 1..Len(calls[e]) :
            calls[e][i].op \in {"createMessage", "getConversation"}
            => calls[e][i].id # TempId)

\* ------------------------------------------------------------------- C18
\* C18: when the stream of a streaming send completes, the answer is attached
\* to the message of the question just sent, the thread's most recent message
\* at that time: an edit-branching message gets exactly one new edit holding
\* the sent text and the full response, a legacy message gets its answer and
\* model set in place; the commit leaves the number of messages unchanged and
\* the question appended at the start of the exchange is still in the thread
C18_StreamingCommit ==
    [][\A e \in Exchanges :
        (Ends(e, "send", "ok") /\ ~loc[e].apiMode)
        => LET n == Len(session.messages)
               last == session.messages[n]
               new == session'.messages[n]
           IN  /\ n > 0
               /\ last.id = <<"u", e>>
               /\ Len(session'.messages) = n
               /\ FindIndex(session'.messages, <<"u", e>>) # 0
               /\ \A j \in 1..(n - 1) : session'.messages[j] = session.messages[j]
               /\ new.id = last.id
               /\ IF last.hasEdits
                  THEN /\ Len(new.edits) = Len(last.edits) + 1
                       /\ SubSeq(new.edits, 1, Len(last.edits)) = last.edits
                       /\ new.edits[Len(new.edits)].question = loc[e].message
                       /\ new.edits[Len(new.edits)].answer = loc[e].full
                  ELSE /\ new.answer = loc[e].full
                       /\ new.model_name = loc[e].model
                       /\ new.question = last.question]_vars

\* ------------------------------------------------------------------- C19
\* C19: whenever the in-progress flag is false the partial stream text is
\* empty, under any interleaving of exchanges and edits
C19_NoPartialTextWhenIdle ==
    ~isLoading => streamingMessage = NoText

\* ------------------------------------------------------------------- C20
\* operations of the backend service
BackendOps == {"createThread", "createMessage", "getConversation", "createMessageEdit"}

\* C20: an exchange in streaming mode, a send or a submitEdit, calls no
\* backend operation and does not promote the thread: none of its steps, from
\* its invocation to its success or error, changes the thread's id or
\* temporary flag or the backend's data
C20_StreamingModeIsLocal ==
    [][\A e \in Exchanges :
        ((StepOf(e) \/ Invoked(e, "send") \/ Invoked(e, "edit")) /\ ~loc'[e].apiMode)
        => /\ \A i \in 1..Len(calls'[e]) : calls'[e][i].op \notin BackendOps
           /\ session'.id = session.id
           /\ session'.isTemporary = session.isTemporary
           /\ db' = db]_vars

\* a streaming-mode send has ended and written its answer into the thread,
\* which is still temporary and still has its local id
C20_Witness ==
    /\ session.isTemporary
    /\ session.id = TempId
    /\ \E e \in Exchanges :
        /\ pc[e] = "done"
        /\ loc[e].kind = "send"
        /\ ~loc[e].apiMode
        /\ loc[e].outcome \in {"ok", "failed"}
        /\ Calls(e, "updateSessionModel") # {}

=============================================================================
